---- MODULE Spec2Model ----
(***************************************************************************)
(* Model of the pluto-duck desktop shell, tauri-shell/src-tauri/src/lib.rs: *)
(* the sidecar supervisor (node_server::launch, wait_for_server, the        *)
(* ServerProcess drop-guard and the RunEvent::Exit handler), the setup      *)
(* sequence (window creation and navigation), the RunEvent::Opened          *)
(* activation dispatcher and the open_external_url command.                 *)
(*                                                                          *)
(* Strings whose content matters (URLs, script literals) are sequences of   *)
(* one-character strings; filesystem paths are sequences of components.     *)
(* The setup closure and every event callback run on the one thread that    *)
(* drives the event loop, so no event is handled while setup runs. When a   *)
(* `?` of the setup closure returns an error (pc = "setup_err") the runtime *)
(* ends the process; the event loop never runs, and the managed state may   *)
(* or may not be dropped on the way. Where the code discards the Result of a*)
(* window call (show, hide, set_focus, eval), the call is taken to be       *)
(* carried out and what it reports is left open; where the code acts on the *)
(* Result (navigate, the browser launcher), both outcomes are modelled.     *)
(***************************************************************************)
EXTENDS Integers, Sequences, FiniteSets, TLC

\* ------------------------------------------------------------------ bounds

\* Activation URLs the OS delivers over one session, over all Opened events
\* (an empty batch counts as one).
MaxReceived == 3

\* open_external_url calls over one session.
MaxCommands == 1

\* ------------------------------------------------------- program constants

\* Duration::from_secs(15), in milliseconds.
TimeoutMs == 15000

\* Duration::from_millis(400): the per-attempt connect timeout.
ConnectTimeoutMs == 400

\* Duration::from_millis(200): the sleep between attempts.
SleepMs == 200

FRONTEND_HOST == "127.0.0.1"

FRONTEND_PORT == 3100

\* frontend_url(): format!("http://{FRONTEND_HOST}:{FRONTEND_PORT}")
frontend_url == <<"http://", FRONTEND_HOST, ":", ToString(FRONTEND_PORT)>>

\* WebviewUrl::default(): the navigation target of a freshly built window.
DefaultUrl == <<"default">>

\* ------------------------------------------------------------ paths

NoPath == <<>>

\* app.path().resource_dir() when it is available.
ResourceDir == <<"resources">>

SERVER_DIST_RESOURCE == <<"dist", "pluto-duck-frontend-server">>

\* app.path().app_data_dir() when it is available.
AppDataDir == <<"appdata">>

\* std::env::temp_dir()
TempDir == <<"tmp">>

\* p is a contiguous part of q (a message that prints q contains p).
Contains(q, p) ==
  /\ p # <<>>
  /\ \E i \in 1..Len(q) : \E j \in i..Len(q) : SubSeq(q, i, j) = p

\* ------------------------------------------------------------ environment

\* What the filesystem and the OS answer during launch.
\*   resourceDir  resource_dir() is Ok
\*   serverDir    <resource_dir>/dist/pluto-duck-frontend-server exists
\*   serverJs     server.js exists in it
\*   appData      app_data_dir() is Ok
\*   logDir       create_dir_all(<data_root>/logs) succeeds
\*   stdoutLog    File::create(node-server-stdout.log) succeeds
\*   stderrLog    File::create(node-server-stderr.log) succeeds
\*   spawnOk      Command::new("node").spawn() succeeds
Layouts ==
  { f \in [resourceDir : BOOLEAN, serverDir : BOOLEAN, serverJs : BOOLEAN,
           appData : BOOLEAN, logDir : BOOLEAN, stdoutLog : BOOLEAN,
           stderrLog : BOOLEAN, spawnOk : BOOLEAN] :
      /\ f.serverJs => f.serverDir
      /\ f.serverDir => f.resourceDir
      /\ f.stdoutLog => f.logDir
      /\ f.stderrLog => f.logDir }

\* A packaged install with everything in place.
FullLayout ==
  [resourceDir |-> TRUE, serverDir |-> TRUE, serverJs |-> TRUE,
   appData |-> TRUE, logDir |-> TRUE, stdoutLog |-> TRUE,
   stderrLog |-> TRUE, spawnOk |-> TRUE]

WindowIds == {"main", "aux"}

\* ------------------------------------------------------------ state

VARIABLES
  debug,        \* cfg!(debug_assertions)
  macos,        \* cfg(target_os = "macos")
  fs,           \* the layout of the machine (an element of Layouts)
  configWindows,\* windows the configuration creates before the setup closure
  pc,           \* position of the main thread
  launchResult, \* Pending, or what node_server::launch returned
  probe,        \* locals of wait_for_server while it runs
  waitResult,   \* "none", "ready" or "timeout": what wait_for_server returned
  child,        \* the sidecar process: "none", "running", "killed", "reaped"
  childEnv,     \* environment and working directory given to the child
  managed,      \* ServerState and ServerProcess are published (app.manage)
  container,    \* the Option<Child> in the mutex: "Some" or "None"
  lockHolder,   \* who holds the mutex: "none", "exit" or "drop"
  tpc,          \* position of each teardown path: [{"exit","drop"} -> ...]
  taken,        \* what each teardown path got from take(): "-", "Some", "None"
  kills,        \* number of child.kill() calls made by each teardown path
  waits,        \* number of child.wait() calls made by each teardown path
  win,          \* the windows: [WindowIds -> record]
  winEvent,     \* the last event handled, when a close request or a Reopen
  jsQueue,      \* window.__plutoAuthCallbackQueue of the main webview
  jsLog,        \* what the webview observed during the last Opened event
  calls,        \* window calls made by the last Opened handler, in order
  failed,       \* the kinds of call that reported Err to that handler
  lastBatch,    \* the batch of the last Opened event
  mainWas,      \* "main" when that event arrived: "absent", "hidden", "visible"
  accepted,     \* URLs of the batches that arrived while "main" existed
  dropped,      \* number of URLs that arrived while it did not
  opened,       \* number of Opened events so far
  received,     \* part of MaxReceived used up
  cmd,          \* the last open_external_url call: input, launcher, result
  launches,     \* number of times the browser launcher was invoked
  commands      \* number of open_external_url calls so far

envVars == <<debug, macos, fs, configWindows>>

sidecarVars == <<child, childEnv, managed, container, lockHolder, tpc, taken, kills, waits>>

setupVars == <<pc, launchResult, probe, waitResult>>

webviewVars == <<jsQueue, jsLog>>

openedVars == <<calls, failed, lastBatch, mainWas, accepted, dropped, opened, received>>

commandVars == <<cmd, launches, commands>>

vars == <<debug, macos, fs, configWindows, pc, launchResult, probe, waitResult, child,
          childEnv, managed, container, lockHolder, tpc, taken, kills, waits,
          win, winEvent, jsQueue, jsLog, calls, failed, lastBatch, mainWas, accepted,
          dropped,
          opened, received,
          cmd, launches, commands>>

\* Whether "main" existed when the last Opened event arrived.
hadMain == mainWas # "absent"

\* ------------------------------------------------------------ results

Ok == [ok |-> TRUE, text |-> "", path |-> NoPath]

\* An anyhow error: the message text and the path the message prints, if any.
Err(text, path) == [ok |-> FALSE, text |-> text, path |-> path]

\* launch has not returned yet.
Pending == [ok |-> FALSE, text |-> "pending", path |-> NoPath]

\* ------------------------------------------------------------ windows

NoWindow ==
  [exists |-> FALSE, visible |-> FALSE, focused |-> FALSE, url |-> NoPath,
   closeHook |-> FALSE]

\* A window as WebviewWindowBuilder builds it: visible, at WebviewUrl::default().
NewWindow ==
  [exists |-> TRUE, visible |-> TRUE, focused |-> TRUE, url |-> DefaultUrl,
   closeHook |-> FALSE]

\* app.get_webview_window(label)
get_webview_window(w, label) == IF w[label].exists THEN label ELSE "absent"

\* app.webview_windows()
webview_windows(w) == {id \in WindowIds : w[id].exists}

\* ------------------------------------------------------------ launch

primary_resource_path == ResourceDir \o SERVER_DIST_RESOURCE

\* server_root(app), release branch: the debug branch is never reached,
\* launch returns before calling it in a debug build.
server_root(f) ==
  IF ~f.resourceDir
    THEN Err("resource directory unavailable", NoPath)
    ELSE IF f.serverDir
      THEN [ok |-> TRUE, text |-> "", path |-> primary_resource_path]
      ELSE Err("node server directory not found in resources", primary_resource_path)

server_entry == primary_resource_path \o <<"server.js">>

\* resolve_data_root(app), release branch.
resolve_data_root(f) ==
  (IF f.appData THEN AppDataDir ELSE TempDir \o <<"pluto_duck">>) \o <<"node-server">>

\* launch without the server_entry.exists() check.
launch_steps_unchecked(f) ==
  LET root == server_root(f) IN
  IF ~root.ok THEN root
  ELSE IF ~f.logDir THEN Err("failed to create log directory", NoPath)
  ELSE IF ~f.stdoutLog THEN Err("failed to create stdout log", NoPath)
  ELSE IF ~f.stderrLog THEN Err("failed to create stderr log", NoPath)
  ELSE IF ~f.spawnOk THEN Err("failed to spawn node server process", NoPath)
  ELSE Ok

\* launch, from server_root up to command.spawn(): the first failing step's
\* error, or Ok when the child was spawned.
launch_steps(f) ==
  LET root == server_root(f) IN
  IF ~root.ok THEN root
  ELSE IF ~f.logDir THEN Err("failed to create log directory", NoPath)
  ELSE IF ~f.stdoutLog THEN Err("failed to create stdout log", NoPath)
  ELSE IF ~f.stderrLog THEN Err("failed to create stderr log", NoPath)
  ELSE IF ~f.serverJs THEN Err("node server entry not found at", server_entry)
  ELSE IF ~f.spawnOk THEN Err("failed to spawn node server process", NoPath)
  ELSE Ok

\* The Command built for the child.
sidecar_command(f) ==
  [program |-> "node", arg |-> "server.js", cwd |-> server_root(f).path,
   PLUTODUCK_DATA_DIR__ROOT |-> resolve_data_root(f),
   HOSTNAME |-> FRONTEND_HOST, PORT |-> ToString(FRONTEND_PORT)]

NoCommand ==
  [program |-> "", arg |-> "", cwd |-> NoPath, PLUTODUCK_DATA_DIR__ROOT |-> NoPath,
   HOSTNAME |-> "", PORT |-> ""]

IdleProbe == [now |-> 0, deadline |-> 0, attempts |-> 0]

\* Time a failed TcpStream::connect_timeout took: refused at once, or timed out.
ConnectDurations == {0, ConnectTimeoutMs}

\* ------------------------------------------------------------ initial state

IdleTeardown == [p \in {"exit", "drop"} |-> "idle"]

NoCmd == [url |-> <<>>, launcher |-> "none", result |-> [ok |-> FALSE, text |-> "none"], launched |-> <<>>]

\* The last event handled was neither a close request nor a Reopen event.
NoWinEvent ==
  [kind |-> "none", id |-> "-", has_visible_windows |-> FALSE, hidden |-> {}]

InitWith(builds, targets, layouts, configs) ==
  /\ debug \in builds
  /\ macos \in targets
  /\ fs \in layouts
  /\ configWindows \in configs
  /\ pc = "boot"
  /\ launchResult = Pending
  /\ probe = IdleProbe
  /\ waitResult = "none"
  /\ child = "none"
  /\ childEnv = NoCommand
  /\ managed = FALSE
  /\ container = "None"
  /\ lockHolder = "none"
  /\ tpc = IdleTeardown
  /\ taken = [p \in {"exit", "drop"} |-> "-"]
  /\ kills = [p \in {"exit", "drop"} |-> 0]
  /\ waits = [p \in {"exit", "drop"} |-> 0]
  /\ win = [id \in WindowIds |-> NoWindow]
  /\ jsQueue = <<>>
  /\ jsLog = <<>>
  /\ calls = <<>>
  /\ lastBatch = <<>>
  /\ accepted = <<>>
  /\ dropped = 0
  /\ opened = 0
  /\ received = 0
  /\ failed = {}
  /\ mainWas = "absent"
  /\ winEvent = NoWinEvent
  /\ cmd = NoCmd
  /\ launches = 0
  /\ commands = 0

\* ------------------------------------------------------------ setup

\* RunEvent::Ready reaches the runtime: the windows of the configuration are
\* built, then the setup closure starts.
Ready ==
  /\ pc = "boot"
  /\ pc' = "launch"
  /\ win' = [id \in WindowIds |-> IF id \in configWindows THEN NewWindow ELSE NoWindow]
  /\ UNCHANGED <<envVars, winEvent, launchResult, probe, waitResult, sidecarVars, webviewVars,
                 openedVars, commandVars>>

\* A launch that publishes an empty container before it resolves anything.
LaunchPublishingFirst(timeout) ==
  /\ pc = "launch"
  /\ managed' = TRUE
  /\ IF debug
       THEN /\ launchResult' = Ok
            /\ pc' = "plugin"
            /\ UNCHANGED <<probe, child, childEnv, container>>
       ELSE LET r == launch_steps(fs) IN
            IF r.ok
              THEN /\ child' = "running"
                   /\ childEnv' = sidecar_command(fs)
                   /\ container' = "Some"
                   /\ probe' = [now |-> 0, deadline |-> timeout, attempts |-> 0]
                   /\ pc' = "wait"
                   /\ UNCHANGED launchResult
              ELSE /\ launchResult' = r
                   /\ pc' = "window"
                   /\ UNCHANGED <<probe, child, childEnv, container>>
  /\ UNCHANGED <<envVars, winEvent, waitResult, lockHolder, tpc, taken, kills, waits, win,
                 webviewVars, openedVars, commandVars>>

\* node_server::launch up to the call of wait_for_server.
LaunchWith(timeout) ==
  /\ pc = "launch"
  /\ IF debug
       THEN /\ launchResult' = Ok
            /\ pc' = "plugin"
            /\ UNCHANGED <<probe, child, childEnv, managed, container>>
       ELSE LET r == launch_steps(fs) IN
            IF r.ok
              THEN /\ child' = "running"
                   /\ childEnv' = sidecar_command(fs)
                   /\ managed' = TRUE
                   /\ container' = "Some"
                   /\ probe' = [now |-> 0, deadline |-> timeout, attempts |-> 0]
                   /\ pc' = "wait"
                   /\ UNCHANGED launchResult
              ELSE /\ launchResult' = r
                   /\ pc' = "window"
                   /\ UNCHANGED <<probe, child, childEnv, managed, container>>
  /\ UNCHANGED <<envVars, winEvent, waitResult, lockHolder, tpc, taken, kills, waits, win,
                 webviewVars, openedVars, commandVars>>

\* wait_for_server(Duration::from_secs(15))
Launch == LaunchWith(TimeoutMs)

\* A loop that makes one more attempt when the clock is at the deadline.
not_after_deadline(p) == p.now <= p.deadline

\* while Instant::now() < deadline
before_deadline(p) == p.now < p.deadline

\* One iteration of the loop of wait_for_server: the deadline has not passed,
\* a connect is attempted; success returns true, failure sleeps.
WaitAttempt ==
  /\ pc = "wait"
  /\ before_deadline(probe)
  /\ \E connected \in BOOLEAN :
       IF connected
         THEN /\ waitResult' = "ready"
              /\ launchResult' = Ok
              /\ probe' = IdleProbe
              /\ pc' = "window"
         ELSE /\ \E d \in ConnectDurations :
                   probe' = [probe EXCEPT !.now = @ + d + SleepMs,
                                          !.attempts = @ + 1]
              /\ UNCHANGED <<waitResult, launchResult, pc>>
  /\ UNCHANGED <<envVars, winEvent, sidecarVars, win, webviewVars, openedVars, commandVars>>

\* A launch that treats the missed deadline as a failure.
WaitTimeoutFailing ==
  /\ pc = "wait"
  /\ ~before_deadline(probe)
  /\ waitResult' = "timeout"
  /\ launchResult' = Err("node server did not become ready within timeout", NoPath)
  /\ probe' = IdleProbe
  /\ pc' = "window"
  /\ UNCHANGED <<envVars, winEvent, sidecarVars, win, webviewVars, openedVars, commandVars>>

\* The loop condition fails: wait_for_server returns false, launch warns
\* and returns Ok.
WaitTimeout ==
  /\ pc = "wait"
  /\ ~before_deadline(probe)
  /\ waitResult' = "timeout"
  /\ launchResult' = Ok
  /\ probe' = IdleProbe
  /\ pc' = "window"
  /\ UNCHANGED <<envVars, winEvent, sidecarVars, win, webviewVars, openedVars, commandVars>>

\* if cfg!(debug_assertions) { app.handle().plugin(...)?; }: in a debug build
\* the log plugin is registered; if that fails the setup closure returns the
\* error.
RegisterLogPlugin ==
  /\ pc = "plugin"
  /\ \E registers \in BOOLEAN :
       pc' = IF registers THEN "window" ELSE "setup_err"
  /\ UNCHANGED <<envVars, winEvent, launchResult, probe, waitResult, sidecarVars, win,
                 webviewVars, openedVars, commandVars>>

\* A setup that takes the window as built whatever build() returns.
get_or_create_window_unchecked(w, builds) ==
  IF get_webview_window(w, "main") = "main"
    THEN [ok |-> TRUE, win |-> w]
    ELSE [ok |-> TRUE, win |-> [w EXCEPT !["main"] = NewWindow]]

\* "Get or create main window": the existing window, or
\* window_builder.build()?, whose error the setup closure returns.
get_or_create_window(w, builds) ==
  IF get_webview_window(w, "main") = "main"
    THEN [ok |-> TRUE, win |-> w]
    ELSE IF builds
      THEN [ok |-> TRUE, win |-> [w EXCEPT !["main"] = NewWindow]]
      ELSE [ok |-> FALSE, win |-> w]

GetOrCreateWindow ==
  /\ pc = "window"
  /\ \E builds \in BOOLEAN :
       LET r == get_or_create_window(win, builds) IN
       /\ win' = r.win
       /\ pc' = IF r.ok THEN "navigate" ELSE "setup_err"
  /\ UNCHANGED <<envVars, winEvent, launchResult, probe, waitResult, sidecarVars, webviewVars,
                 openedVars, commandVars>>

\* node_server::navigate_window(&window): a no-op in a debug build; otherwise
\* window.navigate(frontend_url), whose failure the caller only logs. A
\* navigation loads a new document: the globals of the old one are gone.
navigate_window(w, isDebug, navigates) ==
  IF isDebug \/ ~navigates
    THEN w
    ELSE [w EXCEPT !["main"].url = frontend_url]

NavigateWindow ==
  /\ pc = "navigate"
  /\ \E navigates \in BOOLEAN :
       /\ win' = navigate_window(win, debug, navigates)
       /\ jsQueue' = IF win'["main"].url # win["main"].url THEN <<>> ELSE jsQueue
  /\ pc' = "hooks"
  /\ UNCHANGED <<envVars, winEvent, launchResult, probe, waitResult, sidecarVars, jsLog,
                 openedVars, commandVars>>

\* "Handle window close event (hide instead of quit) for all windows".
InstallCloseHandlers ==
  /\ pc = "hooks"
  /\ win' = [id \in WindowIds |->
               IF id \in webview_windows(win)
                 THEN [win[id] EXCEPT !.closeHook = TRUE]
                 ELSE win[id]]
  /\ pc' = "running"
  /\ UNCHANGED <<envVars, winEvent, launchResult, probe, waitResult, sidecarVars, webviewVars,
                 openedVars, commandVars>>

\* ------------------------------------------------------------ activation

Quote == "\""

Backslash == "\\"

\* The activation URLs the OS delivers: a plain one and one with a quote and
\* a backslash in it.
Urls == { <<"x">>, <<"q", Quote, Backslash>> }

RECURSIVE SeqsUpTo(_, _)
\* The sequences over S of length at most n.
SeqsUpTo(S, n) ==
  IF n = 0 THEN { <<>> }
  ELSE LET shorter == SeqsUpTo(S, n - 1) IN
       shorter \cup { Append(q, x) : q \in shorter, x \in S }

Batches == SeqsUpTo(Urls, MaxReceived)

RECURSIVE json_escape(_)
\* serde_json's escaping of the characters of a string.
json_escape(s) ==
  IF s = <<>> THEN <<>>
  ELSE (IF Head(s) \in {Quote, Backslash} THEN <<Backslash, Head(s)>> ELSE <<Head(s)>>)
       \o json_escape(Tail(s))

\* The string between quotes, nothing escaped (format!("\"{}\"", url)).
to_json_string_unescaped(s) == <<Quote>> \o s \o <<Quote>>

\* serde_json::to_string(&url_string): always Ok for a String.
to_json_string(s) == <<Quote>> \o json_escape(s) \o <<Quote>>

\* The script format!() builds: the literal is inserted twice, as the
\* argument of push and as detail.url of the event.
auth_script(serialized) == [push |-> serialized, detail |-> serialized]

RECURSIVE js_unescape(_)
\* The characters of a JavaScript string literal's body, read as the webview
\* reads them; ok is FALSE when the body is no literal body.
js_unescape(body) ==
  IF body = <<>> THEN [ok |-> TRUE, value |-> <<>>]
  ELSE IF Head(body) = Quote THEN [ok |-> FALSE, value |-> <<>>]
  ELSE IF Head(body) = Backslash
    THEN IF Len(body) < 2 THEN [ok |-> FALSE, value |-> <<>>]
         ELSE LET rest == js_unescape(SubSeq(body, 3, Len(body))) IN
              [ok |-> rest.ok, value |-> <<body[2]>> \o rest.value]
  ELSE LET rest == js_unescape(Tail(body)) IN
       [ok |-> rest.ok, value |-> <<Head(body)>> \o rest.value]

\* A JavaScript string literal, read by the webview.
js_string(lit) ==
  IF Len(lit) < 2 \/ Head(lit) # Quote \/ lit[Len(lit)] # Quote
    THEN [ok |-> FALSE, value |-> <<>>]
    ELSE js_unescape(SubSeq(lit, 2, Len(lit) - 1))

\* The webview runs one script: the queue is created if missing, the URL is
\* pushed, then the pluto-auth-callback event is dispatched. A script that
\* does not parse runs nothing.
run_script(wv, script) ==
  LET pushed == js_string(script.push)
      detail == js_string(script.detail) IN
  IF ~pushed.ok \/ ~detail.ok THEN wv
  ELSE [queue |-> Append(wv.queue, pushed.value),
        log |-> wv.log \o << [kind |-> "push", url |-> pushed.value],
                             [kind |-> "event", url |-> detail.value] >>]

NoScript == [push |-> <<>>, detail |-> <<>>]

Call(op, script) == [op |-> op, script |-> script]

RECURSIVE eval_each(_, _)
\* for url in urls { ... let _ = window.eval(&script); }: reports are the
\* results the eval calls return, discarded one by one.
eval_each(urls, reports) ==
  IF urls = <<>> THEN <<>>
  ELSE <<Call("eval", auth_script(to_json_string(Head(urls))))>>
       \o eval_each(Tail(urls), Tail(reports))

\* The handler with the scripts evaluated before the window is shown and
\* focused.
opened_calls_eval_first(urls, w, reports) ==
  IF urls = <<>> THEN <<>>
  ELSE IF get_webview_window(w, "main") # "main" THEN <<>>
  ELSE eval_each(urls, reports)
       \o <<Call("show", NoScript), Call("set_focus", NoScript)>>

\* The handler with every result propagated (? for let _ =): it stops at the
\* first call that returns Err.
opened_calls_stop_on_error(urls, w, reports) ==
  IF urls = <<>> THEN <<>>
  ELSE IF get_webview_window(w, "main") # "main" THEN <<>>
  ELSE LET all == <<Call("show", NoScript), Call("set_focus", NoScript)>>
                    \o eval_each(urls, SubSeq(reports, 3, Len(reports)))
           errs == {i \in 1..Len(all) : ~reports[i]}
       IN IF errs = {} THEN all
          ELSE SubSeq(all, 1, CHOOSE i \in errs : \A j \in errs : i <= j)

\* The handler without the urls.is_empty() return.
opened_calls_no_empty_check(urls, w, reports) ==
  IF get_webview_window(w, "main") # "main" THEN <<>>
  ELSE <<Call("show", NoScript), Call("set_focus", NoScript)>>
       \o eval_each(urls, SubSeq(reports, 3, Len(reports)))

\* The RunEvent::Opened handler: the calls it makes on the main window, in
\* order, when the i-th call it makes returns reports[i]. An empty batch
\* returns at once; without a main window nothing is done; no result of a
\* call changes what is called next.
opened_calls(urls, w, reports) ==
  IF urls = <<>> THEN <<>>
  ELSE IF get_webview_window(w, "main") # "main" THEN <<>>
  ELSE <<Call("show", NoScript), Call("set_focus", NoScript)>>
       \o eval_each(urls, SubSeq(reports, 3, Len(reports)))

RECURSIVE apply_calls(_, _, _, _)
\* The effect of the calls on the window and its webview. Each call reports
\* Ok or Err (reports[i]); the handler discards every report, so nothing the
\* handler does depends on it. The window system carries out what it was
\* asked: show makes the window visible, set_focus gives it the focus, and a
\* script handed to eval is run by the webview.
apply_calls(st, cs, reports, label) ==
  IF cs = <<>> THEN st
  ELSE LET c == Head(cs)
           next ==
             IF c.op = "show"
               THEN [st EXCEPT !.win[label].visible = TRUE]
             ELSE IF c.op = "set_focus"
               THEN [st EXCEPT !.win[label].focused = TRUE]
             ELSE [st EXCEPT !.wv = run_script(st.wv, c.script)]
       IN apply_calls(next, Tail(cs), Tail(reports), label)

\* RunEvent::Opened { urls } with urls drawn from batches: it reaches the
\* callback before Ready or while the event loop runs. answers[i] is what the
\* i-th call of the handler would return.
OpenedFrom(batches) ==
  /\ pc \in {"boot", "running"}
  /\ \E urls \in batches :
       /\ received + (IF urls = <<>> THEN 1 ELSE Len(urls)) <= MaxReceived
       /\ received' = received + (IF urls = <<>> THEN 1 ELSE Len(urls))
       /\ \E answers \in [1..(Len(urls) + 2) -> BOOLEAN] :
            LET cs == opened_calls(urls, win, answers)
                reports == SubSeq(answers, 1, Len(cs))
                after == apply_calls([win |-> win, wv |-> [queue |-> jsQueue, log |-> <<>>]],
                                     cs, reports, "main")
            IN /\ calls' = cs
               /\ failed' = {cs[i].op : i \in {j \in 1..Len(cs) : ~reports[j]}}
               /\ win' = after.win
               /\ jsQueue' = after.wv.queue
               /\ jsLog' = after.wv.log
               /\ lastBatch' = urls
               /\ mainWas' = IF ~win["main"].exists THEN "absent"
                             ELSE IF win["main"].visible THEN "visible"
                             ELSE "hidden"
               /\ accepted' = IF win["main"].exists THEN accepted \o urls ELSE accepted
               /\ dropped' = IF win["main"].exists THEN dropped ELSE dropped + Len(urls)
  /\ opened' = opened + 1
  /\ winEvent' = NoWinEvent
  /\ UNCHANGED <<envVars, setupVars, sidecarVars, commandVars>>

Opened == OpenedFrom(Batches)

\* ------------------------------------------------------------ window events

\* A handler that lets the close go through: the window is destroyed.
close_requested_unprevented(w, id) ==
  [w EXCEPT ![id] = NoWindow]

\* WindowEvent::CloseRequested on window id. The handler installed at setup
\* calls api.prevent_close() and window.hide(); the result of hide is
\* discarded. Without a handler the window system closes the window.
close_requested(w, id) ==
  IF w[id].closeHook
    THEN [w EXCEPT ![id].visible = FALSE, ![id].focused = FALSE]
    ELSE [w EXCEPT ![id] = NoWindow]

\* A close handler that ends the sidecar as it hides the window.
CloseRequestedTerminating ==
  /\ pc = "running"
  /\ \E id \in webview_windows(win) :
       /\ win' = close_requested(win, id)
       /\ winEvent' = [kind |-> "close", id |-> id, has_visible_windows |-> FALSE,
                       hidden |-> {}]
  /\ child' = IF child = "running" THEN "reaped" ELSE child
  /\ container' = "None"
  /\ UNCHANGED <<envVars, setupVars, childEnv, managed, lockHolder, tpc, taken, kills,
                 waits, webviewVars, openedVars, commandVars>>

CloseRequested ==
  /\ pc = "running"
  /\ \E id \in webview_windows(win) :
       /\ win' = close_requested(win, id)
       /\ winEvent' = [kind |-> "close", id |-> id, has_visible_windows |-> FALSE,
                       hidden |-> {}]
  /\ UNCHANGED <<envVars, setupVars, sidecarVars, webviewVars, openedVars, commandVars>>

\* A handler that shows and focuses every window whatever the event reports.
reopen_unconditional(w, has_visible_windows) ==
  [id \in WindowIds |->
     IF id \in webview_windows(w)
       THEN [w[id] EXCEPT !.visible = TRUE, !.focused = TRUE]
       ELSE w[id]]

\* RunEvent::Reopen { has_visible_windows }: with no visible window, show and
\* set_focus are called on every window (both results are discarded).
reopen(w, has_visible_windows) ==
  IF ~has_visible_windows
    THEN [id \in WindowIds |->
            IF id \in webview_windows(w)
              THEN [w[id] EXCEPT !.visible = TRUE, !.focused = TRUE]
              ELSE w[id]]
    ELSE w

\* The arm is compiled for macOS only. has_visible_windows is the payload
\* of the event, which the platform supplies; the handler tests it and never
\* looks at the windows. winEvent keeps the payload and the windows that were
\* hidden when the event arrived.
Reopen ==
  /\ pc = "running"
  /\ macos
  /\ \E has_visible_windows \in BOOLEAN :
       /\ win' = reopen(win, has_visible_windows)
       /\ winEvent' = [kind |-> "reopen", id |-> "-",
                       has_visible_windows |-> has_visible_windows,
                       hidden |-> {id \in webview_windows(win) : ~win[id].visible}]
  /\ UNCHANGED <<envVars, setupVars, sidecarVars, webviewVars, openedVars, commandVars>>

\* ------------------------------------------------------------ open_external_url

\* Characters str::trim removes: those with the Unicode property White_Space.
\* A character that cannot be written in a string literal here is named by
\* its code point; the name stands for the one character.
Whitespace ==
  { "\t", "\n", "U+000B", "\f", "\r", " ", "U+0085", "U+00A0", "U+1680",
    "U+2000", "U+2001", "U+2002", "U+2003", "U+2004", "U+2005", "U+2006",
    "U+2007", "U+2008", "U+2009", "U+200A", "U+2028", "U+2029", "U+202F",
    "U+205F", "U+3000" }

RECURSIVE trim_start(_)
trim_start(s) ==
  IF s # <<>> /\ Head(s) \in Whitespace THEN trim_start(Tail(s)) ELSE s

RECURSIVE trim_end(_)
trim_end(s) ==
  IF s # <<>> /\ s[Len(s)] \in Whitespace THEN trim_end(SubSeq(s, 1, Len(s) - 1)) ELSE s

\* str::trim
trim(s) == trim_end(trim_start(s))

\* str::starts_with
starts_with(s, prefix) ==
  Len(s) >= Len(prefix) /\ SubSeq(s, 1, Len(prefix)) = prefix

Http == <<"h", "t", "t", "p", ":", "/", "/">>

Https == <<"h", "t", "t", "p", "s", ":", "/", "/">>

\* How the launcher child can end: it cannot be started, it exits with a
\* failure status, it exits successfully.
LauncherOutcomes == {"spawn_error", "exit_failure", "success"}

\* The launcher's part of open_external_url, for a URL that passed the check.
browser_launch(arg, launcher) ==
  [result |->
     IF launcher = "spawn_error"
       THEN [ok |-> FALSE, text |-> "Failed to launch browser"]
     ELSE IF launcher = "success"
       THEN [ok |-> TRUE, text |-> ""]
     ELSE [ok |-> FALSE, text |-> "Browser command failed with status"],
   launched |-> <<arg>>]

\* open_external_url with the prefix tested on the URL as given.
open_external_url_untrimmed(url, launcher) ==
  IF ~starts_with(url, Http) /\ ~starts_with(url, Https)
    THEN [result |-> [ok |-> FALSE, text |-> "Only http(s) URLs are allowed"],
          launched |-> <<>>]
    ELSE browser_launch(trim(url), launcher)

\* open_external_url with trim_start for trim.
open_external_url_trim_start(url, launcher) ==
  LET trimmed == trim_start(url) IN
  IF ~starts_with(trimmed, Http) /\ ~starts_with(trimmed, Https)
    THEN [result |-> [ok |-> FALSE, text |-> "Only http(s) URLs are allowed"],
          launched |-> <<>>]
    ELSE browser_launch(trimmed, launcher)

\* open_external_url(url) with a launcher that ends as `launcher` says: the
\* returned Result and the arguments the launcher was invoked with (none, or
\* the trimmed URL).
open_external_url(url, launcher) ==
  LET trimmed == trim(url) IN
  IF ~starts_with(trimmed, Http) /\ ~starts_with(trimmed, Https)
    THEN [result |-> [ok |-> FALSE, text |-> "Only http(s) URLs are allowed"],
          launched |-> <<>>]
    ELSE browser_launch(trimmed, launcher)

\* Whitespace around a URL, as the UI may pass it.
Pads == { <<>>, <<" ">>, <<"\n">>, <<"\t", " ">>, <<"\r", "\n">>, <<"\f", "U+3000">> }

\* URL bodies without whitespace at either end: accepted ones and near misses
\* (U+200B, the zero-width space, is not White_Space).
Cores ==
  { Http \o <<"e">>,
    Https \o <<"e">>,
    Http,
    Http \o <<"e", " ", "e">>,
    <<"h", "t", "t", "p", ":", "/", "e">>,
    <<"h", "t", "t", "p", "s", ":", "/">>,
    <<"h", "t", "t", "p", "s">>,
    <<"h", "t", "t", "p", " ", ":", "/", "/">>,
    <<"H", "T", "T", "P", ":", "/", "/", "e">>,
    <<"x">> \o Http \o <<"e">>,
    <<"U+200B">> \o Http \o <<"e">>,
    <<"f", "t", "p", ":", "/", "/", "e">>,
    <<"j", "a", "v", "a", "s", "c", "r", "i", "p", "t", ":", "e">>,
    <<>> }

CommandUrls == { lead \o core \o trail : lead \in Pads, core \in Cores, trail \in Pads }

\* The UI invokes the command open_external_url with an argument of urls.
OpenExternalUrlFrom(urls) ==
  /\ pc = "running"
  /\ commands < MaxCommands
  /\ \E url \in urls : \E launcher \in LauncherOutcomes :
       LET r == open_external_url(url, launcher) IN
       /\ cmd' = [url |-> url, launcher |-> launcher, result |-> r.result,
                  launched |-> r.launched]
       /\ launches' = launches + Len(r.launched)
  /\ commands' = commands + 1
  /\ winEvent' = NoWinEvent
  /\ UNCHANGED <<envVars, setupVars, sidecarVars, win, webviewVars, openedVars>>

OpenExternalUrl == OpenExternalUrlFrom(CommandUrls)

\* ------------------------------------------------------------ teardown

Paths == {"exit", "drop"}

\* A read of the guarded value that leaves it in place (as_mut for take).
take_in_place(c) == [value |-> c, left |-> c]

\* Option::take on the guarded value: what the caller gets and what is left.
take(c) == [value |-> c, left |-> "None"]

\* The user quits: the event loop is about to deliver RunEvent::Exit and the
\* managed state is about to be dropped.
ExitRequested ==
  /\ pc = "running"
  /\ pc' = "exiting"
  /\ UNCHANGED <<envVars, winEvent, launchResult, probe, waitResult, sidecarVars, win,
                 webviewVars, openedVars, commandVars>>

\* RunEvent::Exit: app_handle.try_state::<ServerState>().
ExitBegin ==
  /\ pc = "exiting"
  /\ tpc["exit"] = "idle"
  /\ tpc' = [tpc EXCEPT !["exit"] = IF managed THEN "lock" ELSE "done"]
  /\ UNCHANGED <<envVars, winEvent, setupVars, child, childEnv, managed, container, lockHolder,
                 taken, kills, waits, win, webviewVars, openedVars, commandVars>>

\* Drop for ServerProcess starts: the guard exists only once published.
DropBegin ==
  /\ pc \in {"exiting", "setup_err"}
  /\ managed
  /\ tpc["drop"] = "idle"
  /\ tpc' = [tpc EXCEPT !["drop"] = "lock"]
  /\ UNCHANGED <<envVars, winEvent, setupVars, child, childEnv, managed, container, lockHolder,
                 taken, kills, waits, win, webviewVars, openedVars, commandVars>>

\* A lock that does not exclude the other path.
LockUnguarded(p) ==
  /\ tpc[p] = "lock"
  /\ lockHolder' = p
  /\ tpc' = [tpc EXCEPT ![p] = "take"]
  /\ UNCHANGED <<envVars, winEvent, setupVars, child, childEnv, managed, container, taken,
                 kills, waits, win, webviewVars, openedVars, commandVars>>

\* state.lock() / self.0.lock(): blocks while the other path holds the mutex.
Lock(p) ==
  /\ tpc[p] = "lock"
  /\ lockHolder = "none"
  /\ lockHolder' = p
  /\ tpc' = [tpc EXCEPT ![p] = "take"]
  /\ UNCHANGED <<envVars, winEvent, setupVars, child, childEnv, managed, container, taken,
                 kills, waits, win, webviewVars, openedVars, commandVars>>

\* if let Some(mut child) = guard.take()
Take(p) ==
  /\ tpc[p] = "take"
  /\ LET t == take(container) IN
     /\ taken' = [taken EXCEPT ![p] = t.value]
     /\ container' = t.left
     /\ tpc' = [tpc EXCEPT ![p] = IF t.value = "Some" THEN "kill" ELSE "unlock"]
  /\ UNCHANGED <<envVars, winEvent, setupVars, child, childEnv, managed, lockHolder, kills,
                 waits, win, webviewVars, openedVars, commandVars>>

\* let _ = child.kill();
Kill(p) ==
  /\ tpc[p] = "kill"
  /\ kills' = [kills EXCEPT ![p] = @ + 1]
  /\ child' = IF child = "running" THEN "killed" ELSE child
  /\ tpc' = [tpc EXCEPT ![p] = "wait"]
  /\ UNCHANGED <<envVars, winEvent, setupVars, childEnv, managed, container, lockHolder, taken,
                 waits, win, webviewVars, openedVars, commandVars>>

\* A teardown path that signals the child and does not wait for it.
WaitOmitted(p) ==
  /\ tpc[p] = "wait"
  /\ tpc' = [tpc EXCEPT ![p] = "unlock"]
  /\ UNCHANGED <<envVars, winEvent, setupVars, child, childEnv, managed, container,
                 lockHolder, taken, kills, waits, win, webviewVars, openedVars,
                 commandVars>>

\* let _ = child.wait();
Wait(p) ==
  /\ tpc[p] = "wait"
  /\ waits' = [waits EXCEPT ![p] = @ + 1]
  /\ child' = IF child = "killed" THEN "reaped" ELSE child
  /\ tpc' = [tpc EXCEPT ![p] = "unlock"]
  /\ UNCHANGED <<envVars, winEvent, setupVars, childEnv, managed, container, lockHolder, taken,
                 kills, win, webviewVars, openedVars, commandVars>>

\* A teardown path that puts what it took back before releasing the mutex.
UnlockRestoring(p) ==
  /\ tpc[p] = "unlock"
  /\ lockHolder' = "none"
  /\ container' = taken[p]
  /\ tpc' = [tpc EXCEPT ![p] = "done"]
  /\ UNCHANGED <<envVars, winEvent, setupVars, child, childEnv, managed, taken,
                 kills, waits, win, webviewVars, openedVars, commandVars>>

\* The guard goes out of scope: the mutex is released.
Unlock(p) ==
  /\ tpc[p] = "unlock"
  /\ lockHolder' = "none"
  /\ tpc' = [tpc EXCEPT ![p] = "done"]
  /\ UNCHANGED <<envVars, winEvent, setupVars, child, childEnv, managed, container, taken,
                 kills, waits, win, webviewVars, openedVars, commandVars>>

\* ------------------------------------------------------------ specifications

Setup == Ready \/ Launch \/ WaitAttempt \/ WaitTimeout \/ RegisterLogPlugin
           \/ GetOrCreateWindow
           \/ NavigateWindow \/ InstallCloseHandlers

Teardown == ExitRequested \/ ExitBegin \/ DropBegin
              \/ \E p \in Paths : Lock(p) \/ Take(p) \/ Kill(p) \/ Wait(p) \/ Unlock(p)

Init == InitWith(BOOLEAN, BOOLEAN, Layouts, SUBSET WindowIds)

Next == Setup \/ CloseRequested \/ Reopen \/ Teardown

\* The life of the shell and its sidecar on every layout: setup, window
\* events, teardown.
Spec == Init /\ [][Next]_vars

InitActivation == InitWith(BOOLEAN, {TRUE}, {FullLayout}, {{"main"}})

NextActivation == Setup \/ Opened \/ CloseRequested \/ Reopen

\* A session in which the OS delivers activation URLs.
SpecActivation == InitActivation /\ [][NextActivation]_vars

InitCommand == InitWith(BOOLEAN, {TRUE}, {FullLayout}, {{}})

NextCommand == Setup \/ OpenExternalUrl

\* A session in which the UI invokes open_external_url.
SpecCommand == InitCommand /\ [][NextCommand]_vars

\* wait_for_server on its own: a release launch that spawns the child and
\* calls wait_for_server with a timeout of WaitTimeouts, among them one that
\* has elapsed when the loop first reads the clock. The loop is sequential
\* code of the setup thread and connect_timeout and sleep return, so the
\* steps of the loop are taken as long as they are enabled.
WaitTimeouts == {0, SleepMs, ConnectTimeoutMs + SleepMs, TimeoutMs}

LaunchAnyTimeout == \E timeout \in WaitTimeouts : LaunchWith(timeout)

InitWait == InitWith({FALSE}, {TRUE}, {FullLayout}, {{"main"}})

NextWait == Ready \/ LaunchAnyTimeout \/ WaitAttempt \/ WaitTimeout

SpecWait == InitWait /\ [][NextWait]_vars /\ WF_vars(NextWait)

\* A whole session: a build with every file in place and the main window of
\* the configuration, every kind of event while it runs, then the exit. The
\* events carry an empty or a one-URL batch and an accepted or a rejected
\* command argument.
SessionBatches == { <<>>, << <<"x">> >> }

SessionCommandUrls == { Https \o <<"e">>, <<"f", "t", "p", ":">> }

OpenedInSession == OpenedFrom(SessionBatches)

OpenExternalUrlInSession == OpenExternalUrlFrom(SessionCommandUrls)

InitSession == InitWith(BOOLEAN, {TRUE}, {FullLayout}, {{"main"}})

NextSession ==
  \/ Setup
  \/ OpenedInSession
  \/ CloseRequested
  \/ Reopen
  \/ OpenExternalUrlInSession
  \/ Teardown

SpecSession == InitSession /\ [][NextSession]_vars

\* ------------------------------------------------------------ properties

Total(count) == count["exit"] + count["drop"]

\* C1: over the whole session the child is killed at most once and waited for
\* at most once, whichever teardown paths run and however they interleave; a
\* path whose take() returned None has made no kill and no wait; and once a
\* teardown path has finished with a child spawned, there has been exactly
\* one kill and one wait.
ExactlyOneTermination ==
  /\ Total(kills) <= 1
  /\ Total(waits) <= 1
  /\ \A p \in Paths : taken[p] = "None" => kills[p] = 0 /\ waits[p] = 0
  /\ ~(taken["exit"] = "Some" /\ taken["drop"] = "Some")
  /\ (child # "none" /\ \E p \in Paths : tpc[p] = "done")
       => Total(kills) = 1 /\ Total(waits) = 1

\* Both paths ran to their end; the drop-guard took the handle, the Exit
\* handler came second and found None.
BothPathsRanDropFirst ==
  /\ tpc["exit"] = "done"
  /\ tpc["drop"] = "done"
  /\ taken["drop"] = "Some"
  /\ taken["exit"] = "None"
  /\ kills["drop"] = 1
  /\ waits["drop"] = 1
  /\ child = "reaped"

\* C2 (as claimed): the main window is at the sidecar URL only if
\* wait_for_server has returned, with a successful connect or with the
\* deadline passed.
NavigationGatedByReadiness ==
  win["main"].url = frontend_url => waitResult \in {"ready", "timeout"}

\* C3 (as claimed): once setup is over in a release build where launch failed
\* for a missing server.js, the main window exists and is not at the sidecar
\* URL.
SidecarAbsentNotNavigated ==
  (/\ pc \in {"running", "exiting"}
   /\ launchResult = Err("node server entry not found at", server_entry))
    => /\ win["main"].exists
       /\ win["main"].url # frontend_url

\* The path launch looks for when server.js is absent: server.js itself, or
\* the server directory when that is missing.
ProbedPath(f) == IF f.serverDir THEN server_entry ELSE primary_resource_path

\* launch has returned in a release build whose layout has no server.js.
ReturnedWithoutServerJs == ~debug /\ ~fs.serverJs /\ launchResult # Pending

\* C4 (as claimed): on every layout without server.js a release launch fails
\* with a message that contains the probed path, and spawns no child.
ServerJsAbsentNamesPath ==
  ReturnedWithoutServerJs
    => /\ ~launchResult.ok
       /\ Contains(launchResult.path, ProbedPath(fs))
       /\ child = "none"

\* C4 (amended): on every layout without server.js a release launch fails and
\* spawns no child; its message contains the probed path when the resource
\* directory is available and either the server directory is missing or the
\* log directory and both log files could be created.
ServerJsAbsentFails ==
  ReturnedWithoutServerJs
    => /\ ~launchResult.ok
       /\ child = "none"
       /\ ~managed
       /\ (fs.resourceDir /\ (~fs.serverDir \/ (fs.logDir /\ fs.stdoutLog /\ fs.stderrLog)))
            => Contains(launchResult.path, ProbedPath(fs))

\* launch failed on the missing server.js, naming it, although node itself
\* could have been spawned.
EntryNotFoundReported ==
  /\ ReturnedWithoutServerJs
  /\ fs.serverDir
  /\ fs.spawnOk
  /\ launchResult = Err("node server entry not found at", server_entry)
  /\ child = "none"

\* What a webview observes when it runs, for each URL in order, one script
\* that pushes the URL and then dispatches the event for it.
PushThenEvent(urls) ==
  [i \in 1..(2 * Len(urls)) |->
     IF i % 2 = 1 THEN [kind |-> "push", url |-> urls[(i + 1) \div 2]]
                  ELSE [kind |-> "event", url |-> urls[i \div 2]]]

\* C5: for a non-empty batch that arrived while the main window existed, the
\* webview observed, for each URL in received order, one push followed by
\* one event with the same URL, and the handler called show and set_focus
\* before any eval.
ActivationOrdering ==
  (hadMain /\ lastBatch # <<>>)
    => /\ jsLog = PushThenEvent(lastBatch)
       /\ Len(calls) = Len(lastBatch) + 2
       /\ {calls[1].op, calls[2].op} = {"show", "set_focus"}
       /\ \A i \in 3..Len(calls) : calls[i].op = "eval"

\* A batch of two different URLs was dispatched to an existing main window.
TwoUrlBatchDispatched ==
  /\ hadMain
  /\ Len(lastBatch) = 2
  /\ lastBatch[1] # lastBatch[2]
  /\ Len(jsLog) = 4
  /\ Len(calls) = 4

\* C6: every URL of a batch that arrived while the main window existed had a
\* script evaluated for it, whatever the window's visibility and whatever
\* show, set_focus and the evals reported.
EveryUrlEvaluated ==
  hadMain
    => \A i \in 1..Len(lastBatch) :
         \E j \in 1..Len(calls) :
           /\ calls[j].op = "eval"
           /\ js_string(calls[j].script.push) = [ok |-> TRUE, value |-> lastBatch[i]]

\* A second Opened event reached a hidden main window; show, set_focus and
\* an eval all reported Err, and both URLs were evaluated.
EvaluatedDespiteErrors ==
  /\ hadMain
  /\ opened >= 2
  /\ Len(lastBatch) = 2
  /\ failed = {"show", "set_focus", "eval"}
  /\ mainWas = "hidden"
  /\ Len(jsLog) = 4

\* C7: an Opened event whose batch is empty, or that arrives while no main
\* window exists, makes no window call, changes no window and leaves the
\* webview as it was; what reaches the webview in an Opened event is only
\* that event's own batch, and nothing reaches it in any other step, so a
\* dropped URL is never delivered later.
DroppedBatchHasNoEffect ==
  [][ /\ (opened' = opened + 1 /\ (lastBatch' = <<>> \/ ~win["main"].exists))
           => /\ calls' = <<>>
              /\ win' = win
              /\ jsQueue' = jsQueue
              /\ jsLog' = <<>>
      /\ (opened' = opened + 1 /\ lastBatch' # <<>> /\ win["main"].exists)
           => /\ Len(jsQueue') <= Len(jsQueue) + Len(lastBatch')
              /\ \A i \in 1..Len(jsLog') :
                   \E k \in 1..Len(lastBatch') : jsLog'[i].url = lastBatch'[k]
      /\ (opened' = opened) => Len(jsQueue') <= Len(jsQueue)
    ]_vars

\* A batch was dropped before the window existed; later an empty batch
\* reached the hidden main window: the window is still hidden and the
\* webview's queue is still empty.
DroppedThenEmptyIgnored ==
  /\ dropped > 0
  /\ pc = "running"
  /\ hadMain
  /\ lastBatch = <<>>
  /\ ~win["main"].visible
  /\ calls = <<>>
  /\ jsQueue = <<>>

\* C8: the webview's queue is the URLs of every batch that arrived while the
\* main window existed, each exactly as received, in arrival order.
QueueHoldsEveryAcceptedUrl == jsQueue = accepted

\* Two non-empty batches reached the main window after it was navigated to
\* the sidecar URL; a URL with a quote and a backslash is among them.
TwoBatchesQueued ==
  /\ opened = 2
  /\ dropped = 0
  /\ Len(accepted) = 3
  /\ Len(lastBatch) \in {1, 2}
  /\ \E i \in 1..Len(jsQueue) : jsQueue[i] = <<"q", Quote, Backslash>>
  /\ win["main"].url = frontend_url

\* Past any leading whitespace, u goes on with http:// or https://.
HttpAfterWhitespace(u) ==
  \E i \in 1..Len(u) :
    /\ \A k \in 1..(i - 1) : u[k] \in Whitespace
    /\ u[i] \notin Whitespace
    /\ \/ (i + 6 <= Len(u) /\ SubSeq(u, i, i + 6) = Http)
       \/ (i + 7 <= Len(u) /\ SubSeq(u, i, i + 7) = Https)

\* u from its first to its last character that is not whitespace.
TrimmedOf(u) ==
  LET inner == {i \in 1..Len(u) : u[i] \notin Whitespace} IN
  IF inner = {} THEN <<>>
  ELSE SubSeq(u, CHOOSE i \in inner : \A j \in inner : i <= j,
                 CHOOSE i \in inner : \A j \in inner : i >= j)

Rejected == [ok |-> FALSE, text |-> "Only http(s) URLs are allowed"]

\* C9: open_external_url(u) returns "Only http(s) URLs are allowed" exactly
\* when u, past its leading whitespace, does not start with http:// or
\* https://.
RejectsIffNotHttp ==
  commands > 0 => (cmd.result = Rejected <=> ~HttpAfterWhitespace(cmd.url))

\* A URL with a carriage return and a line feed before it and an ideographic
\* space after it was accepted, and the launcher failed.
PaddedUrlAccepted ==
  /\ commands > 0
  /\ cmd.url # <<>>
  /\ cmd.url[1] = "\r"
  /\ cmd.url[Len(cmd.url)] = "U+3000"
  /\ cmd.result = [ok |-> FALSE, text |-> "Browser command failed with status"]

\* C10: a call of open_external_url invokes the launcher once, with the
\* trimmed URL, when the URL is accepted, and not at all when it is rejected;
\* it returns Ok exactly when the URL is accepted and the launcher succeeds;
\* and it changes neither the sidecar handle nor any window.
LauncherInvokedOnceWithTrimmedUrl ==
  [][ (commands' = commands + 1)
        => /\ HttpAfterWhitespace(cmd'.url)
                => /\ cmd'.launched = <<TrimmedOf(cmd'.url)>>
                   /\ launches' = launches + 1
           /\ ~HttpAfterWhitespace(cmd'.url)
                => /\ cmd'.launched = <<>>
                   /\ launches' = launches
           /\ cmd'.result.ok <=> (HttpAfterWhitespace(cmd'.url) /\ cmd'.launcher = "success")
           /\ UNCHANGED <<sidecarVars, win, webviewVars>>
    ]_vars

\* With the sidecar running and the main window up, an accepted URL with
\* whitespace after it was handed to a launcher that could not be started.
LauncherFailureReturned ==
  /\ commands = 1
  /\ launches = 1
  /\ cmd.launcher = "spawn_error"
  /\ cmd.url[Len(cmd.url)] \in Whitespace
  /\ cmd.launched = <<Https \o <<"e">> >>
  /\ ~cmd.result.ok
  /\ container = "Some"
  /\ child = "running"
  /\ win["main"].exists

\* A step in which a close request on window id was handled.
CloseHandled(id) ==
  /\ winEvent' # winEvent
  /\ winEvent'.kind = "close"
  /\ winEvent'.id = id

\* C11: a close request on any window leaves the window in existence and
\* hidden and the process running, and no step of the session before the
\* exit removes a window that can be retrieved by its identifier.
CloseHidesAndKeepsWindow ==
  [][ \A id \in WindowIds :
        /\ CloseHandled(id)
             => /\ get_webview_window(win', id) = id
                /\ ~win'[id].visible
                /\ pc' = "running"
        /\ get_webview_window(win, id) = id => get_webview_window(win', id) = id
    ]_vars

\* The close of the second window was handled while the sidecar runs: the
\* window is hidden, still retrievable, and the sidecar is still running.
AuxClosedAndKept ==
  /\ winEvent.kind = "close"
  /\ winEvent.id = "aux"
  /\ get_webview_window(win, "aux") = "aux"
  /\ ~win["aux"].visible
  /\ win["main"].visible
  /\ pc = "running"
  /\ child = "running"

\* A step in which a Reopen event was handled.
ReopenHandled ==
  /\ winEvent' # winEvent
  /\ winEvent'.kind = "reopen"

\* C12: a Reopen event that reports no visible window leaves every window
\* visible and focused and creates or removes none; a Reopen event that
\* reports a visible window changes no window's visibility.
ReopenShowsAllOrNothing ==
  [][ ReopenHandled
        => IF ~winEvent'.has_visible_windows
             THEN /\ webview_windows(win') = webview_windows(win)
                  /\ \A id \in webview_windows(win) :
                       win'[id].visible /\ win'[id].focused
             ELSE \A id \in WindowIds : win'[id].visible = win[id].visible
    ]_vars

\* The main window had been hidden by a close request and the second window
\* had not; the Reopen event reported no visible window, and main and the
\* second window are visible and focused.
ReopenedAfterClose ==
  /\ winEvent.kind = "reopen"
  /\ ~winEvent.has_visible_windows
  /\ winEvent.hidden = {"main"}
  /\ webview_windows(win) = {"main", "aux"}
  /\ \A id \in WindowIds : win[id].visible /\ win[id].focused

\* C13: in a session whose sidecar was spawned, once the Exit handler has
\* returned the child has been signalled and reaped and the container is
\* empty, whichever teardown path did the work.
ExitLeavesChildReaped ==
  (child # "none" /\ tpc["exit"] = "done")
    => /\ Total(kills) >= 1
       /\ Total(waits) >= 1
       /\ child = "reaped"
       /\ container = "None"

\* The Exit handler found the child in the container, killed it, waited for
\* it and returned, before the drop-guard started.
ExitHandlerReaped ==
  /\ tpc["exit"] = "done"
  /\ tpc["drop"] = "idle"
  /\ taken["exit"] = "Some"
  /\ kills["exit"] = 1
  /\ waits["exit"] = 1
  /\ child = "reaped"
  /\ container = "None"

\* A step in which a close request, a Reopen event, an Opened event or a call
\* of open_external_url was handled.
EventHandled ==
  \/ (winEvent' # winEvent /\ winEvent'.kind \in {"close", "reopen"})
  \/ opened' # opened
  \/ commands' # commands

\* C14: handling a close request, a Reopen event, an Opened event or an
\* open_external_url call changes neither the container nor the child nor
\* any part of the teardown; the child is killed, waited for or taken out of
\* the container only in a step of the Exit handler or of the drop-guard.
EventsLeaveSidecarAlone ==
  [][ /\ EventHandled => UNCHANGED sidecarVars
      /\ ( \/ kills' # kills
           \/ waits' # waits
           \/ (child # "none" /\ child' # child)
           \/ (container = "Some" /\ container' # container) )
           => /\ pc \in {"exiting", "setup_err"}
              /\ \E p \in Paths : tpc'[p] # tpc[p]
    ]_vars

\* An Opened event, a command call, a close request and a Reopen event were
\* all handled in a release session and the sidecar is still running, its
\* handle still in the container.
AllEventsHandledSidecarRuns ==
  /\ opened >= 1
  /\ hadMain
  /\ commands = 1
  /\ winEvent.kind = "reopen"
  /\ ~winEvent.has_visible_windows
  /\ winEvent.hidden = {"main"}
  /\ child = "running"
  /\ container = "Some"
  /\ pc = "running"

\* C15: the child is spawned only by launch, which runs once; once the
\* container is published it stays published and its only change is from
\* Some to None; and once a kill has been made no step makes another kill or
\* brings a child to life.
SpawnedOncePublishedOnce ==
  [][ /\ pc' = "launch" => pc \in {"boot", "launch"}
      /\ (child' # child /\ child' = "running") => (child = "none" /\ pc = "launch")
      /\ (managed' # managed) => (~managed /\ pc = "launch" /\ container' = "Some")
      /\ (managed /\ container' # container)
           => (container = "Some" /\ container' = "None")
      /\ Total(kills) >= 1 => (kills' = kills /\ child' # "running")
    ]_vars

\* Both teardown paths have run, the Exit handler first: it took the child
\* and the drop-guard found the container empty and killed nothing.
DropFoundContainerEmpty ==
  /\ managed
  /\ tpc["exit"] = "done"
  /\ tpc["drop"] = "done"
  /\ taken = [p \in Paths |-> IF p = "exit" THEN "Some" ELSE "None"]
  /\ container = "None"
  /\ Total(kills) = 1
  /\ child = "reaped"

\* C16: once wait_for_server has returned false, launch has returned Ok, the
\* container is published, the child runs and its handle is in the container
\* until a teardown path starts, and the setup closure goes on as after a
\* successful wait: its next steps are enabled, the main window is obtained
\* unless its build fails, and with the window the navigation is made.
TimeoutIsNotAFailure ==
  waitResult = "timeout"
    => /\ launchResult = Ok
       /\ managed
       /\ tpc = IdleTeardown => (child = "running" /\ container = "Some")
       /\ pc \in {"window", "navigate", "hooks", "running", "exiting", "setup_err"}
       /\ pc = "window" => ENABLED GetOrCreateWindow
       /\ pc = "navigate" => (win["main"].exists /\ ENABLED NavigateWindow)
       /\ pc \in {"hooks", "running", "exiting"} => win["main"].exists
       /\ pc = "setup_err" => ("main" \notin configWindows /\ ~win["main"].exists)

\* The deadline passed without a connect; setup finished all the same, the
\* main window was navigated to the sidecar URL and the child is running.
NavigatedAfterTimeout ==
  /\ waitResult = "timeout"
  /\ launchResult = Ok
  /\ pc = "running"
  /\ win["main"].url = frontend_url
  /\ child = "running"
  /\ container = "Some"

\* C17 (as claimed): the main window is at the sidecar URL only if
\* wait_for_server observed a successful connect earlier in the session.
NavigatedOnlyWhenReady ==
  win["main"].url = frontend_url => waitResult = "ready"

\* C18: wait_for_server returns: a call that is running leads to its return.
\* It returns true in the step of an attempt that started before the deadline
\* and succeeded, and makes no attempt after that; it returns false only when
\* the clock has reached the deadline and every attempt made has failed; and
\* with a deadline that has elapsed when the loop first reads the clock it
\* returns false after no attempt. Every failed attempt costs at least the
\* sleep, which bounds the number of attempts.
WaitForServerContract ==
  /\ [][ /\ (pc = "wait" /\ pc' # "wait")
              => /\ pc' = "window"
                 /\ waitResult' \in {"ready", "timeout"}
                 /\ waitResult' = "ready" => probe.now < probe.deadline
                 /\ waitResult' = "timeout"
                      => /\ probe.now >= probe.deadline
                         /\ probe.deadline = 0 => probe.attempts = 0
         /\ (pc = "wait" /\ pc' = "wait")
              => /\ probe.now < probe.deadline
                 /\ waitResult' = "none"
                 /\ probe'.attempts = probe.attempts + 1
                 /\ probe'.now >= probe.now + SleepMs
         /\ pc # "wait" => (pc' = "wait" \/ probe'.attempts = probe.attempts)
         /\ (pc = "wait" /\ probe.attempts > 0)
              => probe.now - (ConnectTimeoutMs + SleepMs) < probe.deadline
       ]_vars
  /\ (pc = "wait") ~> (pc = "window")

\* Seventy-five attempts were refused at once, each followed by the sleep:
\* the clock is at the 15 s deadline and the loop is about to return false.
DeadlineReachedAfterFailures ==
  /\ pc = "wait"
  /\ probe.deadline = TimeoutMs
  /\ probe.attempts = 75
  /\ probe.now = TimeoutMs
  /\ ~before_deadline(probe)
  /\ child = "running"

\* C19: a teardown path holds the mutex from its take to the end of its
\* wait; a path that found the container empty is done only after the child
\* has been reaped; and whenever a path is done in a session that spawned a
\* child, the child has been reaped.
TeardownSerializedByLock ==
  \A p \in Paths :
    /\ tpc[p] \in {"take", "kill", "wait", "unlock"} => lockHolder = p
    /\ (tpc[p] = "done" /\ taken[p] = "None") => child = "reaped"
    /\ (tpc[p] = "done" /\ child # "none") => child = "reaped"

\* The two paths run concurrently: the drop-guard holds the mutex and has
\* killed the child but not yet waited for it, and the Exit handler is
\* blocked in lock().
ExitBlockedWhileDropReaps ==
  /\ tpc["drop"] = "wait"
  /\ tpc["exit"] = "lock"
  /\ lockHolder = "drop"
  /\ child = "killed"
  /\ container = "None"

\* launch has returned without having spawned: a debug build, or an error.
ReturnedWithoutSpawn ==
  /\ pc \notin {"boot", "launch", "wait"}
  /\ debug \/ ~launchResult.ok

\* C20: the container is published only with a spawned child; in a debug
\* build and after every failed launch nothing is published, no child
\* exists, and no teardown path locks, takes, kills or waits.
PublishedOnlyAfterSpawn ==
  /\ managed => child # "none"
  /\ ReturnedWithoutSpawn
       => /\ ~managed
          /\ child = "none"
          /\ container = "None"
          /\ Total(kills) = 0
          /\ Total(waits) = 0
          /\ \A p \in Paths : tpc[p] \in {"idle", "done"} /\ taken[p] = "-"

\* The spawn itself failed in a release build; the session ran and ended,
\* and the Exit handler returned after finding no ServerState.
ExitAfterSpawnError ==
  /\ ~debug
  /\ launchResult = Err("failed to spawn node server process", NoPath)
  /\ pc = "exiting"
  /\ tpc["exit"] = "done"
  /\ ~managed
  /\ Total(kills) = 0

====
